---- MODULE Spec2Model ----
(***************************************************************************)
(* A model of experiments/analyze_benchmarks.py: the benchmark report      *)
(* generator.  Text (headers, cells, method names) is a sequence of        *)
(* one-character strings, so that lower-casing, stripping, substring tests *)
(* and the number pattern are computed as the script computes them.        *)
(* A float is a fixed-point integer in units of 1/Scale; a missing value   *)
(* (NaN) is the empty tuple and a present value v is the tuple <<v>>.      *)
(***************************************************************************)
EXTENDS Integers, Sequences, FiniteSets, TLC

VARIABLES pc, csv_path, assume_n, table, df, detailed, summary, summary_rows,
          plots, dirs, files, csv_out, bar_out, md_out, tex_out, printed, raised

vars == <<pc, csv_path, assume_n, table, df, detailed, summary, summary_rows,
          plots, dirs, files, csv_out, bar_out, md_out, tex_out, printed, raised>>

(***************************************************************************)
(* Bounds of the model.                                                    *)
(***************************************************************************)
\* most data rows of a value table read from the CSV
MaxRows == 2
\* most headers of a table handed to canonicalize_columns on its own
MaxHeaders == 2

\* fixed-point unit: a float x is the integer x * Scale, truncated
Scale == 1000

Range(s) == {s[i] : i \in 1..Len(s)}

(***************************************************************************)
(* Python str operations.                                                  *)
(***************************************************************************)
UpperCase == <<"A","B","C","D","E","F","G","H","I","J","K","L","M",
               "N","O","P","Q","R","S","T","U","V","W","X","Y","Z">>
LowerCase == <<"a","b","c","d","e","f","g","h","i","j","k","l","m",
               "n","o","p","q","r","s","t","u","v","w","x","y","z">>

\* str.lower() on one character
lower_char(c) ==
    IF \E i \in 1..26 : UpperCase[i] = c
    THEN LowerCase[CHOOSE i \in 1..26 : UpperCase[i] = c]
    ELSE c

\* str.lower()
lower(s) == [i \in 1..Len(s) |-> lower_char(s[i])]

\* str.strip(): leading and trailing blanks removed
strip(s) ==
    LET keep == {i \in 1..Len(s) : s[i] # " "}
    IN  IF keep = {} THEN <<>>
        ELSE LET a == CHOOSE i \in keep : \A j \in keep : i <= j
                 b == CHOOSE i \in keep : \A j \in keep : j <= i
             IN  SubSeq(s, a, b)

\* Python's `sub in s` on strings
contains(sub, s) ==
    \E i \in 1..(Len(s) - Len(sub) + 1) : SubSeq(s, i, i + Len(sub) - 1) = sub

(***************************************************************************)
(* Canonical column names.                                                 *)
(***************************************************************************)
Method       == <<"M", "e", "t", "h", "o", "d">>
Mean_ms      == <<"M", "e", "a", "n", "_", "m", "s">>
StdDev_ms    == <<"S", "t", "d", "D", "e", "v", "_", "m", "s">>
CI95_ms      == <<"C", "I", "9", "5", "_", "m", "s">>
Fallback_pct == <<"F", "a", "l", "l", "b", "a", "c", "k", "_", "p", "c", "t">>
Accuracy_pct == <<"A", "c", "c", "u", "r", "a", "c", "y", "_", "p", "c", "t">>
Samples      == <<"S", "a", "m", "p", "l", "e", "s">>
InputLength  == <<"I", "n", "p", "u", "t", "L", "e", "n", "g", "t", "h">>
Min_ms       == <<"M", "i", "n", "_", "m", "s">>
Max_ms       == <<"M", "a", "x", "_", "m", "s">>
Runtime_ms   == <<"R", "u", "n", "t", "i", "m", "e", "_", "m", "s">>

\* the if/elif chain with the method test moved behind the mean test
colmap_entry_mean_first(c) ==
    LET lc == lower(c)
    IN  IF (contains(<<"m", "e", "a", "n">>, lc) /\ ~contains(<<"c", "i">>, lc)) \/ contains(<<"a", "v", "g">>, lc)
        THEN Mean_ms
        ELSE IF contains(<<"m", "e", "t", "h", "o", "d">>, lc) THEN Method
        ELSE IF contains(<<"s", "t", "d">>, lc) THEN StdDev_ms
        ELSE IF contains(<<"c", "i">>, lc) /\ contains(<<"9", "5">>, lc) THEN CI95_ms
        ELSE IF contains(<<"f", "a", "l", "l", "b", "a", "c", "k">>, lc) THEN Fallback_pct
        ELSE IF contains(<<"a", "c", "c", "u", "r", "a", "c", "y">>, lc) THEN Accuracy_pct
        ELSE IF contains(<<"s", "a", "m", "p", "l", "e">>, lc) \/ strip(lc) = <<"n">> THEN Samples
        ELSE IF contains(<<"i", "n", "p", "u", "t">>, lc) /\ contains(<<"l", "e", "n">>, lc) THEN InputLength
        ELSE IF contains(<<"m", "i", "n">>, lc) THEN Min_ms
        ELSE IF contains(<<"m", "a", "x">>, lc) THEN Max_ms
        ELSE c

\* the if/elif chain without the "ci" exclusion of the mean test
colmap_entry_no_ci_guard(c) ==
    LET lc == lower(c)
    IN  IF contains(<<"m", "e", "t", "h", "o", "d">>, lc) THEN Method
        ELSE IF contains(<<"m", "e", "a", "n">>, lc) \/ contains(<<"a", "v", "g">>, lc) THEN Mean_ms
        ELSE IF contains(<<"s", "t", "d">>, lc) THEN StdDev_ms
        ELSE IF contains(<<"c", "i">>, lc) /\ contains(<<"9", "5">>, lc) THEN CI95_ms
        ELSE IF contains(<<"f", "a", "l", "l", "b", "a", "c", "k">>, lc) THEN Fallback_pct
        ELSE IF contains(<<"a", "c", "c", "u", "r", "a", "c", "y">>, lc) THEN Accuracy_pct
        ELSE IF contains(<<"s", "a", "m", "p", "l", "e">>, lc) \/ strip(lc) = <<"n">> THEN Samples
        ELSE IF contains(<<"i", "n", "p", "u", "t">>, lc) /\ contains(<<"l", "e", "n">>, lc) THEN InputLength
        ELSE IF contains(<<"m", "i", "n">>, lc) THEN Min_ms
        ELSE IF contains(<<"m", "a", "x">>, lc) THEN Max_ms
        ELSE c

\* the body of the loop of canonicalize_columns: the name column c (already
\* stripped) is renamed to; a column no branch maps keeps its name
colmap_entry(c) ==
    LET lc == lower(c)
    IN  IF contains(<<"m", "e", "t", "h", "o", "d">>, lc) THEN Method
        ELSE IF (contains(<<"m", "e", "a", "n">>, lc) /\ ~contains(<<"c", "i">>, lc)) \/ contains(<<"a", "v", "g">>, lc)
        THEN Mean_ms
        ELSE IF contains(<<"s", "t", "d">>, lc) THEN StdDev_ms
        ELSE IF contains(<<"c", "i">>, lc) /\ contains(<<"9", "5">>, lc) THEN CI95_ms
        ELSE IF contains(<<"f", "a", "l", "l", "b", "a", "c", "k">>, lc) THEN Fallback_pct
        ELSE IF contains(<<"a", "c", "c", "u", "r", "a", "c", "y">>, lc) THEN Accuracy_pct
        ELSE IF contains(<<"s", "a", "m", "p", "l", "e">>, lc) \/ strip(lc) = <<"n">> THEN Samples
        ELSE IF contains(<<"i", "n", "p", "u", "t">>, lc) /\ contains(<<"l", "e", "n">>, lc) THEN InputLength
        ELSE IF contains(<<"m", "i", "n">>, lc) THEN Min_ms
        ELSE IF contains(<<"m", "a", "x">>, lc) THEN Max_ms
        ELSE c

\* canonicalize_columns on the header row: strip every name, then rename
canonicalize_columns(headers) ==
    [i \in 1..Len(headers) |-> colmap_entry(strip(headers[i]))]

(***************************************************************************)
(* extract_number: num_re.search and float().                              *)
(***************************************************************************)
Digits == <<"0","1","2","3","4","5","6","7","8","9">>

IsDigit(c) == \E i \in 1..10 : Digits[i] = c

DigitVal(c) == (CHOOSE i \in 1..10 : Digits[i] = c) - 1

\* the index of the last character of the run of digits starting at i
\* (i - 1 when s[i] is no digit): what a greedy \d* consumes
RECURSIVE digit_run_end(_, _)
digit_run_end(s, i) ==
    IF i <= Len(s) /\ IsDigit(s[i]) THEN digit_run_end(s, i + 1) ELSE i - 1

\* the value of a run of digits
RECURSIVE digits_value(_)
digits_value(ds) ==
    IF ds = <<>> THEN 0
    ELSE 10 * digits_value(SubSeq(ds, 1, Len(ds) - 1)) + DigitVal(ds[Len(ds)])

RECURSIVE pow10(_)
pow10(k) == IF k <= 0 THEN 1 ELSE 10 * pow10(k - 1)

\* num_re matched at position i: [+-]?\d*\.?\d+(?:[eE][+-]?\d+)? .
\* ok: whether it matches there; the record holds the pieces float() reads.
num_re_match_at(s, i) ==
    LET signed == i <= Len(s) /\ s[i] \in {"+", "-"}
        p      == IF signed THEN i + 1 ELSE i
        d1     == digit_run_end(s, p)
        dotted == d1 + 2 <= Len(s) /\ s[d1 + 1] = "." /\ IsDigit(s[d1 + 2])
        d2     == IF dotted THEN digit_run_end(s, d1 + 2) ELSE d1
        ok     == dotted \/ d1 >= p
        esign  == d2 + 2 <= Len(s) /\ s[d2 + 2] \in {"+", "-"}
        q      == IF esign THEN d2 + 3 ELSE d2 + 2
        hasexp == ok /\ d2 + 1 <= Len(s) /\ s[d2 + 1] \in {"e", "E"}
                     /\ q <= Len(s) /\ IsDigit(s[q])
        d3     == IF hasexp THEN digit_run_end(s, q) ELSE d2
    IN  [ok       |-> ok,
         negative |-> signed /\ s[i] = "-",
         int      |-> SubSeq(s, p, d1),
         frac     |-> IF dotted THEN SubSeq(s, d1 + 2, d2) ELSE <<>>,
         exp      |-> IF hasexp
                      THEN (IF esign /\ s[d2 + 2] = "-" THEN -1 ELSE 1)
                           * digits_value(SubSeq(s, q, d3))
                      ELSE 0]

\* float() of a match, in units of 1/Scale, truncated toward zero
float_of(m) ==
    LET mant  == digits_value(m.int \o m.frac)
        shift == m.exp - Len(m.frac)
        mag   == IF shift >= 0 THEN mant * Scale * pow10(shift)
                 ELSE (mant * Scale) \div pow10(-shift)
    IN  IF m.negative THEN -mag ELSE mag

NaN == <<>>

IsNaN(x) == x = <<>>

\* extract_number(s): NaN for a missing cell (the empty text), else the first
\* (leftmost) match of num_re as a float, NaN when nothing matches
extract_number(s) ==
    IF s = <<>> THEN NaN
    ELSE LET hits == {i \in 1..Len(s) : num_re_match_at(s, i).ok}
         IN  IF hits = {} THEN NaN
             ELSE LET first == CHOOSE i \in hits : \A j \in hits : i <= j
                  IN  <<float_of(num_re_match_at(s, first))>>

(***************************************************************************)
(* Inputs: the command line, the search directories and the CSV tables.    *)
(***************************************************************************)
None == <<>>

\* --assume-n: its default (argparse) and one other value
DefaultAssumeN == 30
AssumeNs == {DefaultAssumeN, 9}

\* CSV files that may lie under data/ or experiments/, with their st_mtime
ReportCsv == [name |-> "data/report_table.csv", mtime |-> 2]
OlderCsv  == [name |-> "experiments/runs/old.csv", mtime |-> 1]
SearchDirContents == {{}, {ReportCsv}, {ReportCsv, OlderCsv}}

\* --csv: absent, a file that exists, a file that does not
GoneCsv == "gone.csv"
CsvArgs == {None, <<ReportCsv.name>>, <<GoneCsv>>}

\* Path.stem of the paths above
stem(path) ==
    CASE path = ReportCsv.name -> "report_table"
      [] path = OlderCsv.name  -> "old"
      [] path = GoneCsv        -> "gone"

\* find_latest_csv over what rglob('*.csv') finds: None when nothing is
\* found, else the file with the greatest modification time
find_latest_csv(found) ==
    IF found = {} THEN None
    ELSE <<(CHOOSE f \in found : \A g \in found : g.mtime <= f.mtime).name>>

\* the elements of seq whose index is in S, in order
RECURSIVE pick(_, _, _)
pick(seq, S, i) ==
    IF i > Len(seq) THEN <<>>
    ELSE (IF i \in S THEN <<seq[i]>> ELSE <<>>) \o pick(seq, S, i + 1)

\* headers as benchmark CSVs spell them; each is renamed to another
\* canonical name (Runtime_ms is kept as it is)
CsvHeaders == << <<"M", "e", "t", "h", "o", "d">>, <<" ", "M", "e", "a", "n", "(", "m", "s", ")">>, <<"S", "t", "d", "D", "e", "v", "(", "m", "s", ")">>, <<"F", "a", "l", "l", "b", "a", "c", "k", " ", "%">>,
                 <<"A", "c", "c", "u", "r", "a", "c", "y">>, <<"S", "a", "m", "p", "l", "e", "s">>, <<"C", "I", "9", "5", "(", "m", "s", ")">>, <<"I", "n", "p", "u", "t", " ", "L", "e", "n", "g", "t", "h">>,
                 <<"R", "u", "n", "t", "i", "m", "e", "_", "m", "s">> >>

\* two rows under CsvHeaders: the pre-aggregated lines of a report
BaseRows == << << <<"R", "e", "g", "e", "x">>, <<"5", ".", "2", " ", "m", "s">>, <<"0", ".", "3">>, <<"1", "2", ".", "5", "%">>, <<"9", "9", ".", "5">>, <<>>, <<"0", ".", "0", "5">>,
                  <<"1", "6">>, <<"5", ".", "1">> >>,
               << <<"D", "F", "A">>, <<"8", ".", "1">>, <<"0", ".", "1">>, <<>>, <<>>, <<>>, <<>>, <<"6", "4">>, <<"8", ".", "0">> >> >>

\* column tables: every choice of columns of the report above
ColumnTables ==
    { [headers |-> pick(CsvHeaders, S, 1),
       rows    |-> [r \in 1..Len(BaseRows) |-> pick(BaseRows[r], S, 1)]]
      : S \in SUBSET (1..Len(CsvHeaders)) }

\* value tables: Method and the five aggregated columns, with or without a
\* CI95 column, and up to MaxRows rows of cells drawn from the pools below
MethodCells == { <<"R", "e", "g", "e", "x">>, <<"D", "F", "A">> }
\* <<Mean, StdDev, Samples>> cells of one row
ValueCells == { << <<"5", ".", "2", " ", "m", "s">>, <<"0", ".", "3">>, <<>> >>,
                << <<"8", ".", "1">>, <<"0", ".", "1">>, <<"4">> >>,
                << <<"8", ".", "1">>, <<>>, <<"2", ".", "5", " ", "a", "v", "g">> >>,
                << <<"f", "a", "s", "t">>, <<"0", ".", "3">>, <<"0", ".", "5">> >>,
                << <<>>, <<".", "2", "5">>, <<"-", "4">> >> }
\* the number of columns, and the <<Fallback, Accuracy, CI95>> cells, the
\* same in every row of a table: no CI95 column, a CI95 column with values,
\* a CI95 column and nothing in the three
ExtraCells == { [k |-> 6, cells |-> << <<"1", "2", ".", "5", "%">>, <<"9", "9", ".", "5">>, <<>> >>],
                [k |-> 7, cells |-> << <<"1", "2", ".", "5", "%">>, <<"9", "9", ".", "5">>, <<"0", ".", "0", "5">> >>],
                [k |-> 7, cells |-> << <<>>, <<>>, <<>> >>] }

ValueRows(extra) ==
    { << m, v[1], v[2], extra[1], extra[2], v[3], extra[3] >>
      : m \in MethodCells, v \in ValueCells }

RECURSIVE SeqsUpTo(_, _)
SeqsUpTo(S, n) ==
    IF n = 0 THEN { <<>> }
    ELSE LET shorter == SeqsUpTo(S, n - 1)
         IN  shorter \cup { Append(q, x) : q \in {t \in shorter : Len(t) = n - 1},
                                            x \in S }

ValueTables ==
    UNION { { [headers |-> pick(CsvHeaders, 1..e.k, 1),
               rows    |-> [i \in 1..Len(rs) |-> pick(rs[i], 1..e.k, 1)]]
              : rs \in SeqsUpTo(ValueRows(e.cells), MaxRows) }
            : e \in ExtraCells }

Tables == ColumnTables \cup ValueTables

(***************************************************************************)
(* The data frame.                                                         *)
(***************************************************************************)
\* `name in df.columns`
has_column(cols, name) == \E i \in 1..Len(cols) : cols[i] = name

\* df[name] of one row
cell(frame, r, name) ==
    frame.rows[r][CHOOSE i \in 1..Len(frame.cols) : frame.cols[i] = name]

\* clean_numeric_columns: every column but Method goes through
\* extract_number (a column pandas already read as numbers holds the floats
\* of its literals, which is what extract_number makes of them)
clean_numeric_columns(cols, rows) ==
    [r \in 1..Len(rows) |->
        [j \in 1..Len(cols) |->
            IF cols[j] = Method THEN rows[r][j] ELSE extract_number(rows[r][j])]]

\* pd.read_csv, canonicalize_columns and clean_numeric_columns
load_frame(t) ==
    LET cols == canonicalize_columns(t.headers)
    IN  [cols |-> cols, rows |-> clean_numeric_columns(cols, t.rows)]

EmptyFrame == [cols |-> <<>>, rows |-> <<>>]
EmptyTable == [headers |-> <<>>, rows |-> <<>>]

(***************************************************************************)
(* The aggregation of main(): groupby('Method').agg({...}), fillna, CI95.  *)
(***************************************************************************)
\* the characters of the method names in code-point order
CodePoints == <<" ", "-", "0","1","2","3","4","5","6","7","8","9",
                "A","B","C","D","E","F","G","H","I","J","K","L","M",
                "N","O","P","Q","R","S","T","U","V","W","X","Y","Z", "_",
                "a","b","c","d","e","f","g","h","i","j","k","l","m",
                "n","o","p","q","r","s","t","u","v","w","x","y","z">>

ord(c) == CHOOSE i \in 1..Len(CodePoints) : CodePoints[i] = c

\* Python's a < b on strings
RECURSIVE str_lt(_, _)
str_lt(a, b) ==
    IF b = <<>> THEN FALSE
    ELSE IF a = <<>> THEN TRUE
    ELSE IF a[1] # b[1] THEN ord(a[1]) < ord(b[1])
    ELSE str_lt(Tail(a), Tail(b))

\* the keys of the aggregation dictionary
AggColumns == <<Mean_ms, StdDev_ms, Fallback_pct, Accuracy_pct, Samples>>

\* the columns of the frame groupby(..., as_index=False).agg({...}) returns:
\* the key and the keys of the dictionary
summary_columns == <<Method>> \o AggColumns

\* the dictionary's keys that are no column of the frame: agg raises
\* KeyError("Column(s) [...] do not exist") when there is one
missing_agg_columns(cols) ==
    {c \in Range(AggColumns) : ~has_column(cols, c)}

\* the distinct keys of the groups, sorted (groupby sorts its keys)
RECURSIVE sorted_keys(_)
sorted_keys(K) ==
    IF K = {} THEN <<>>
    ELSE LET least == CHOOSE k \in K : \A o \in K \ {k} : str_lt(k, o)
         IN  <<least>> \o sorted_keys(K \ {least})

\* the values of column name in the rows of group m, in row order
group_values(frame, m, name) ==
    LET idx == {r \in 1..Len(frame.rows) : cell(frame, r, Method) = m}
    IN  pick([r \in 1..Len(frame.rows) |-> cell(frame, r, name)], idx, 1)

RECURSIVE sum_present(_)
sum_present(vals) ==
    IF vals = <<>> THEN 0
    ELSE (IF IsNaN(vals[1]) THEN 0 ELSE vals[1][1]) + sum_present(Tail(vals))

count_present(vals) == Cardinality({i \in 1..Len(vals) : ~IsNaN(vals[i])})

\* 'mean': the arithmetic mean of the present values, NaN when there is none
agg_mean(vals) ==
    IF count_present(vals) = 0 THEN NaN
    ELSE <<sum_present(vals) \div count_present(vals)>>

\* 'max': the greatest present value, NaN when there is none
agg_max(vals) ==
    IF count_present(vals) = 0 THEN NaN
    ELSE LET present == {vals[i][1] : i \in {j \in 1..Len(vals) : ~IsNaN(vals[j])}}
         IN  <<CHOOSE v \in present : \A w \in present : w <= v>>

\* Series.fillna(default)
fillna(x, default) == IF IsNaN(x) THEN <<default>> ELSE x

\* int() of a float: truncation toward zero
int(v) == IF v >= 0 THEN v \div Scale ELSE -((-v) \div Scale)

\* the integer square root, by bisection on lo..hi
RECURSIVE isqrt_between(_, _, _)
isqrt_between(x, lo, hi) ==
    IF lo >= hi THEN lo
    ELSE LET mid == (lo + hi + 1) \div 2
         IN  IF mid * mid <= x THEN isqrt_between(x, mid, hi)
             ELSE isqrt_between(x, lo, mid - 1)

\* 1000 * sqrt(n), truncated
sqrt_milli(n) == isqrt_between(n * 1000000, 0, 46340)

\* compute_ci95 dividing by n where the code divides by sqrt(n)
compute_ci95_no_sqrt(std, n) ==
    IF IsNaN(std) \/ n <= 0 THEN NaN
    ELSE <<(196 * std[1]) \div (100 * n)>>

\* compute_ci95(std, n): NaN for a missing std or n <= 0, else
\* 1.96 * std / sqrt(n)
compute_ci95(std, n) ==
    IF IsNaN(std) \/ n <= 0 THEN NaN
    ELSE <<(1960 * std[1]) \div sqrt_milli(n)>>

\* the row of the aggregated frame for method m (lines 233-239)
agg_row(frame, m) ==
    [Method       |-> m,
     Mean_ms      |-> agg_mean(group_values(frame, m, Mean_ms)),
     StdDev_ms    |-> agg_mean(group_values(frame, m, StdDev_ms)),
     Fallback_pct |-> agg_mean(group_values(frame, m, Fallback_pct)),
     Accuracy_pct |-> agg_mean(group_values(frame, m, Accuracy_pct)),
     Samples      |-> agg_max(group_values(frame, m, Samples))]

\* line 248 on one row r of the aggregated frame (Samples already filled):
\* CI95_ms is taken from the row when the frame has that column and the
\* value is present, and computed otherwise
ci95_of_row(r) ==
    LET got == IF has_column(summary_columns, CI95_ms) THEN r.CI95_ms ELSE NaN
    IN  IF has_column(summary_columns, CI95_ms) /\ ~IsNaN(got) THEN got
        ELSE compute_ci95(r.StdDev_ms, int(r.Samples[1]))

\* lines 233-248 on a frame that has every aggregated column
aggregate(frame, n) ==
    LET keys == sorted_keys({cell(frame, r, Method) : r \in 1..Len(frame.rows)})
    IN  [i \in 1..Len(keys) |->
            LET a == agg_row(frame, keys[i])
                r == [a EXCEPT !.Samples = fillna(a.Samples, n * Scale)]
            IN  [Method       |-> r.Method,
                 Mean_ms      |-> r.Mean_ms,
                 StdDev_ms    |-> r.StdDev_ms,
                 Fallback_pct |-> r.Fallback_pct,
                 Accuracy_pct |-> r.Accuracy_pct,
                 Samples      |-> r.Samples,
                 CI95_ms      |-> ci95_of_row(r)]]

(***************************************************************************)
(* The rows handed to the renderers (lines 260-274).                       *)
(***************************************************************************)
\* `float(x) if not np.isnan(x) else default`
or_default(x, default) == IF IsNaN(x) THEN default ELSE x[1]

\* one summary row with Accuracy_pct defaulting to 0.0 like the others
summary_row_accuracy_zero(row, n) ==
    [Method       |-> row.Method,
     Mean_ms      |-> or_default(row.Mean_ms, 0),
     StdDev_ms    |-> or_default(row.StdDev_ms, 0),
     CI95_ms      |-> or_default(row.CI95_ms, 0),
     Fallback_pct |-> or_default(row.Fallback_pct, 0),
     Accuracy_pct |-> or_default(row.Accuracy_pct, 0),
     Samples      |-> IF IsNaN(row.Samples) THEN n ELSE int(row.Samples[1])]

\* lines 263-271: one summary row
summary_row(row, n) ==
    [Method       |-> row.Method,
     Mean_ms      |-> or_default(row.Mean_ms, 0),
     StdDev_ms    |-> or_default(row.StdDev_ms, 0),
     CI95_ms      |-> or_default(row.CI95_ms, 0),
     Fallback_pct |-> or_default(row.Fallback_pct, 0),
     Accuracy_pct |-> or_default(row.Accuracy_pct, 100 * Scale),
     Samples      |-> IF IsNaN(row.Samples) THEN n ELSE int(row.Samples[1])]

\* insertion of row x behind the rows of the sorted list whose key is not
\* greater: what a stable sort does with equal keys
RECURSIVE insert_by_mean(_, _)
insert_by_mean(sortedrows, x) ==
    IF sortedrows = <<>> THEN <<x>>
    ELSE IF x.Mean_ms < sortedrows[1].Mean_ms THEN <<x>> \o sortedrows
    ELSE <<sortedrows[1]>> \o insert_by_mean(Tail(sortedrows), x)

\* the rows left in the order of the aggregated frame
sorted_by_mean_unsorted(rows) == rows

\* line 274: sorted(summary_rows, key=lambda r: r['Mean_ms']), a stable sort
RECURSIVE sorted_by_mean(_)
sorted_by_mean(rows) ==
    IF rows = <<>> THEN <<>>
    ELSE insert_by_mean(sorted_by_mean(SubSeq(rows, 1, Len(rows) - 1)),
                        rows[Len(rows)])

(***************************************************************************)
(* Output files and the renderers.                                         *)
(***************************************************************************)
Reports == "reports"
Plots   == "plots"

\* out_base / f'{prefix}{csv_path.stem}{ext}'
out_file(dir, prefix, path, ext) ==
    [dir |-> dir, name |-> <<prefix, stem(path[1]), ext>>]

cleaned_csv(path)  == out_file(Reports, "summary_", path, ".csv")
runtime_plot(path) == out_file(Plots, "runtime_comparison_", path, ".png")
scaling_plot(path) == out_file(Plots, "runtime_scaling_", path, ".png")
md_out_path(path)  == out_file(Reports, "hybrid_validation_summary_", path, ".md")
tex_out_path(path) == out_file(Reports, "hybrid_validation_table_", path, ".tex")

\* render_markdown naming the scaling plot whether it was drawn or not
render_markdown_both_images(summary_table, plotlist, path) ==
    [rows   |-> summary_table,
     images |-> <<runtime_plot(path).name, scaling_plot(path).name>>]

\* render_markdown: the table rows and one image reference per plot handed
\* in, by file name
render_markdown(summary_table, plotlist, path) ==
    [rows   |-> summary_table,
     images |-> [i \in 1..Len(plotlist) |-> plotlist[i].name]]

\* latex_table: one line per summary row
latex_table(summary_table) == summary_table

(***************************************************************************)
(* main(), one action per stage.                                           *)
(***************************************************************************)
Init ==
    /\ pc = "start"
    /\ csv_path = None
    /\ assume_n = DefaultAssumeN
    /\ table = EmptyTable
    /\ df = EmptyFrame
    /\ detailed = None
    /\ summary = <<>>
    /\ summary_rows = <<>>
    /\ plots = <<>>
    /\ dirs = {}
    /\ files = {}
    /\ csv_out = None
    /\ bar_out = None
    /\ md_out = None
    /\ tex_out = None
    /\ printed = <<>>
    /\ raised = "no"

\* lines 203-216: the arguments, the search, the exit when nothing is found
Locate ==
    /\ pc = "start"
    /\ \E arg \in CsvArgs, found \in SearchDirContents, n \in AssumeNs :
          LET path == IF arg # None THEN arg ELSE find_latest_csv(found)
          IN  /\ csv_path' = path
              /\ assume_n' = n
              /\ IF path = None
                 THEN /\ printed' = Append(printed, "No CSV found")
                      /\ pc' = "done"
                 ELSE /\ printed' = Append(printed, "Using CSV")
                      /\ pc' = "read_csv"
    /\ UNCHANGED <<table, df, detailed, summary, summary_rows, plots, dirs,
                   files, csv_out, bar_out, md_out, tex_out, raised>>

\* LoadCsv with the output folders prepared before the Method check
LoadCsv_folders_first ==
    /\ pc = "read_csv"
    /\ IF csv_path[1] = GoneCsv
       THEN /\ pc' = "raised"
            /\ raised' = "FileNotFoundError"
            /\ UNCHANGED <<table, df, detailed, printed, dirs>>
       ELSE \E t \in Tables :
              LET frame == load_frame(t)
              IN  /\ table' = t
                  /\ df' = frame
                  /\ detailed' = IF has_column(frame.cols, InputLength)
                                    /\ has_column(frame.cols, Runtime_ms)
                                 THEN <<frame.cols>> ELSE None
                  /\ dirs' = dirs \cup {Reports, Plots}
                  /\ IF ~has_column(frame.cols, Method)
                     THEN /\ printed' = Append(printed, "CSV missing Method column; aborting")
                          /\ pc' = "done"
                     ELSE /\ pc' = "aggregate"
                          /\ UNCHANGED printed
                  /\ UNCHANGED raised
    /\ UNCHANGED <<csv_path, assume_n, summary, summary_rows, plots,
                   files, csv_out, bar_out, md_out, tex_out>>

\* lines 218-230: read_csv (FileNotFoundError for a --csv path that does not
\* exist), canonicalize, clean, the detailed copy, the exit without Method
LoadCsv ==
    /\ pc = "read_csv"
    /\ IF csv_path[1] = GoneCsv
       THEN /\ pc' = "raised"
            /\ raised' = "FileNotFoundError"
            /\ UNCHANGED <<table, df, detailed, printed>>
       ELSE \E t \in Tables :
              LET frame == load_frame(t)
              IN  /\ table' = t
                  /\ df' = frame
                  /\ detailed' = IF has_column(frame.cols, InputLength)
                                    /\ has_column(frame.cols, Runtime_ms)
                                 THEN <<frame.cols>> ELSE None
                  /\ IF ~has_column(frame.cols, Method)
                     THEN /\ printed' = Append(printed, "CSV missing Method column; aborting")
                          /\ pc' = "done"
                     ELSE /\ pc' = "aggregate"
                          /\ UNCHANGED printed
                  /\ UNCHANGED raised
    /\ UNCHANGED <<csv_path, assume_n, summary, summary_rows, plots, dirs,
                   files, csv_out, bar_out, md_out, tex_out>>

\* lines 233-248. agg raises KeyError when a key of its dictionary is no
\* column of the frame. On a frame without rows, apply(axis=1) returns a
\* frame, and whether assigning it to the one column CI95_ms raises
\* ValueError depends on the pandas release.
Aggregate ==
    /\ pc = "aggregate"
    /\ IF missing_agg_columns(df.cols) # {}
       THEN /\ pc' = "raised"
            /\ raised' = "KeyError: Column(s) do not exist"
            /\ UNCHANGED summary
       ELSE /\ summary' = aggregate(df, assume_n)
            /\ \/ /\ pc' = "mkdirs"
                  /\ UNCHANGED raised
               \/ /\ Len(df.rows) = 0
                  /\ pc' = "raised"
                  /\ raised' = "ValueError"
    /\ UNCHANGED <<csv_path, assume_n, table, df, detailed, summary_rows, plots,
                   dirs, files, csv_out, bar_out, md_out, tex_out, printed>>

\* lines 250-254: the output folders
MakeDirs ==
    /\ pc = "mkdirs"
    /\ dirs' = dirs \cup {Reports, Plots}
    /\ pc' = "save_csv"
    /\ UNCHANGED <<csv_path, assume_n, table, df, detailed, summary, summary_rows,
                   plots, files, csv_out, bar_out, md_out, tex_out, printed, raised>>

\* lines 256-258: the aggregated frame written as it is
SaveSummaryCsv ==
    /\ pc = "save_csv"
    /\ files' = files \cup {cleaned_csv(csv_path)}
    /\ csv_out' = <<summary>>
    /\ pc' = "bar_chart"
    /\ UNCHANGED <<csv_path, assume_n, table, df, detailed, summary, summary_rows,
                   plots, dirs, bar_out, md_out, tex_out, printed, raised>>

\* lines 260-281: the summary rows, sorted, and the bar chart of them.
\* pd.DataFrame([]) has no column, so generate_bar_chart raises
\* KeyError('Method') when there is no row.
BarChart ==
    /\ pc = "bar_chart"
    /\ LET rows == sorted_by_mean([i \in 1..Len(summary) |->
                                      summary_row(summary[i], assume_n)])
       IN  /\ summary_rows' = rows
           /\ IF rows = <<>>
              THEN /\ pc' = "raised"
                   /\ raised' = "KeyError: 'Method'"
                   /\ UNCHANGED <<files, bar_out, plots>>
              ELSE /\ files' = files \cup {runtime_plot(csv_path)}
                   /\ bar_out' = <<rows>>
                   /\ plots' = <<runtime_plot(csv_path)>>
                   /\ pc' = "scaling"
                   /\ UNCHANGED raised
    /\ UNCHANGED <<csv_path, assume_n, table, df, detailed, summary, dirs,
                   csv_out, md_out, tex_out, printed>>

\* whether the scaling stage draws: detailed data with a Runtime_ms column
draws_scaling(d) == d # None /\ has_column(d[1], Runtime_ms)

\* lines 283-292: the scaling plot of the detailed rows
ScalingPlot ==
    /\ pc = "scaling"
    /\ IF detailed # None
       THEN IF ~has_column(detailed[1], Runtime_ms)
            THEN /\ printed' = Append(printed, "skipping scaling plot")
                 /\ UNCHANGED <<files, plots>>
            ELSE /\ files' = files \cup {scaling_plot(csv_path)}
                 /\ plots' = Append(plots, scaling_plot(csv_path))
                 /\ UNCHANGED printed
       ELSE UNCHANGED <<files, plots, printed>>
    /\ pc' = "markdown"
    /\ UNCHANGED <<csv_path, assume_n, table, df, detailed, summary, summary_rows,
                   dirs, csv_out, bar_out, md_out, tex_out, raised>>

\* lines 294-297: the markdown report
Markdown ==
    /\ pc = "markdown"
    /\ files' = files \cup {md_out_path(csv_path)}
    /\ md_out' = <<render_markdown(summary_rows, plots, csv_path)>>
    /\ pc' = "latex"
    /\ UNCHANGED <<csv_path, assume_n, table, df, detailed, summary, summary_rows,
                   plots, dirs, csv_out, bar_out, tex_out, printed, raised>>

\* lines 299-307: the LaTeX table and the closing messages
Latex ==
    /\ pc = "latex"
    /\ files' = files \cup {tex_out_path(csv_path)}
    /\ tex_out' = <<latex_table(summary_rows)>>
    /\ printed' = Append(printed, "Generated")
    /\ pc' = "done"
    /\ UNCHANGED <<csv_path, assume_n, table, df, detailed, summary, summary_rows,
                   plots, dirs, csv_out, bar_out, md_out, raised>>

\* the file the stage at pc writes
stage_file(stage, path) ==
    CASE stage = "save_csv"  -> cleaned_csv(path)
      [] stage = "bar_chart" -> runtime_plot(path)
      [] stage = "scaling"   -> scaling_plot(path)
      [] stage = "markdown"  -> md_out_path(path)
      [] stage = "latex"     -> tex_out_path(path)

\* a write of lines 253-301 fails (mkdir, to_csv, savefig, write_text raise
\* OSError): main stops there; the folder or file being written may be left
WriteFails ==
    /\ \/ pc \in {"mkdirs", "save_csv", "markdown", "latex"}
       \/ pc = "bar_chart" /\ summary # <<>>
       \/ pc = "scaling" /\ draws_scaling(detailed)
    /\ \E left \in BOOLEAN :
          IF pc = "mkdirs"
          THEN /\ dirs' = IF left THEN dirs \cup {Reports} ELSE dirs
               /\ UNCHANGED files
          ELSE /\ files' = IF left THEN files \cup {stage_file(pc, csv_path)}
                           ELSE files
               /\ UNCHANGED dirs
    /\ pc' = "raised"
    /\ raised' = "OSError"
    /\ UNCHANGED <<csv_path, assume_n, table, df, detailed, summary, summary_rows,
                   plots, csv_out, bar_out, md_out, tex_out, printed>>

Next ==
    \/ Locate
    \/ LoadCsv
    \/ Aggregate
    \/ MakeDirs
    \/ SaveSummaryCsv
    \/ BarChart
    \/ ScalingPlot
    \/ Markdown
    \/ Latex
    \/ WriteFails

Spec == Init /\ [][Next]_vars

(***************************************************************************)
(* canonicalize_columns on its own, over headers that meet several rules.  *)
(***************************************************************************)
HeaderPool == { <<"M", "e", "t", "h", "o", "d">>, <<"m", "e", "t", "h", "o", "d", " ", "n", "a", "m", "e">>, <<"M", "e", "a", "n", " ", "M", "e", "t", "h", "o", "d">>, <<"M", "e", "a", "n", "(", "m", "s", ")">>, <<" ", "M", "E", "A", "N", " ">>,
                <<"M", "e", "a", "n", " ", "C", "I", "9", "5">>, <<"m", "e", "a", "n", "_", "c", "i">>, <<"A", "v", "g", " ", "C", "I", "9", "5", " ", "(", "m", "s", ")">>, <<"A", "v", "e", "r", "a", "g", "e">>,
                <<"S", "t", "d", "D", "e", "v", "(", "m", "s", ")">>, <<"S", "t", "d", " ", "C", "I", "9", "5">>, <<"C", "I", "9", "5">>, <<"C", "I">>, <<"F", "a", "l", "l", "b", "a", "c", "k", " ", "%">>,
                <<"A", "c", "c", "u", "r", "a", "c", "y">>, <<"S", "a", "m", "p", "l", "e", "s">>, <<"S", "a", "m", "p", "l", "e", " ", "M", "i", "n">>, <<"N">>, <<" ", "n", " ">>, <<"N", "o", "t", "e", "s">>,
                <<"I", "n", "p", "u", "t", " ", "L", "e", "n", "g", "t", "h">>, <<"I", "n", "p", "u", "t">>, <<"M", "i", "n", "(", "m", "s", ")">>, <<"M", "a", "x", "(", "m", "s", ")">>,
                <<"R", "u", "n", "t", "i", "m", "e", "_", "m", "s">>, <<"P", "r", "e", "c", "i", "s", "i", "o", "n">> }

HeaderLists ==
    {hs \in SeqsUpTo(HeaderPool, MaxHeaders) :
        hs # <<>> /\ \A i, j \in 1..Len(hs) : i # j => hs[i] # hs[j]}

InitCanon ==
    /\ pc = "canonicalize"
    /\ csv_path = None
    /\ assume_n = DefaultAssumeN
    /\ table \in {[headers |-> hs, rows |-> <<>>] : hs \in HeaderLists}
    /\ df = EmptyFrame
    /\ detailed = None
    /\ summary = <<>>
    /\ summary_rows = <<>>
    /\ plots = <<>>
    /\ dirs = {}
    /\ files = {}
    /\ csv_out = None
    /\ bar_out = None
    /\ md_out = None
    /\ tex_out = None
    /\ printed = <<>>
    /\ raised = "no"

\* line 219: df = canonicalize_columns(df)
Canonicalize ==
    /\ pc = "canonicalize"
    /\ df' = [cols |-> canonicalize_columns(table.headers), rows |-> <<>>]
    /\ pc' = "canonicalized"
    /\ UNCHANGED <<csv_path, assume_n, table, detailed, summary, summary_rows,
                   plots, dirs, files, csv_out, bar_out, md_out, tex_out,
                   printed, raised>>

NextCanon == Canonicalize

SpecCanon == InitCanon /\ [][NextCanon]_vars

(***************************************************************************)
(* Claims.                                                                 *)
(***************************************************************************)
\* the lower-cased, stripped text of header i of the table read
header_lc(i) == lower(strip(table.headers[i]))

\* the raw cell of row r under the column that was renamed to name
raw_cell(r, name) ==
    table.rows[r][CHOOSE i \in 1..Len(df.cols) : df.cols[i] = name]

\* a text in which num_re finds nothing: it holds no digit
NoDigit(s) == \A i \in 1..Len(s) : ~IsDigit(s[i])

\* the rows of the table read whose Method is m
RowsOf(m) == {r \in 1..Len(df.rows) : cell(df, r, Method) = m}

\* the aggregation has run and produced rows
Aggregated == summary # <<>>

NonDecreasingMean(rows) ==
    \A i \in 1..(Len(rows) - 1) : rows[i].Mean_ms <= rows[i + 1].Mean_ms

\* ---- C1 ----------------------------------------------------------------
\* C1 (as claimed): once the table is aggregated, every method with a
\* present source CI95 value has that value as the CI95_ms of its summary row.
C1_SourceCI95Kept ==
    (Aggregated /\ has_column(df.cols, CI95_ms)) =>
        \A r \in 1..Len(df.rows) :
            ~IsNaN(cell(df, r, CI95_ms)) =>
                \E i \in 1..Len(summary) :
                    /\ summary[i].Method = cell(df, r, Method)
                    /\ summary[i].CI95_ms = cell(df, r, CI95_ms)

\* ---- C2 ----------------------------------------------------------------
\* C2 (as claimed): whenever some header contains "mean" and some header
\* contains "method", the canonicalized columns include Mean_ms and Method.
C2_MeanAndMethodAlways ==
    (pc = "canonicalized"
       /\ (\E i \in 1..Len(table.headers) : contains(<<"m", "e", "a", "n">>, header_lc(i)))
       /\ (\E i \in 1..Len(table.headers) : contains(<<"m", "e", "t", "h", "o", "d">>, header_lc(i))))
    => (has_column(df.cols, Mean_ms) /\ has_column(df.cols, Method))

\* C2 (amended): every header containing "method" becomes Method, and every
\* header containing "mean" but neither "ci" nor "method" becomes Mean_ms; so
\* a table with one header of each kind has both columns.
C2_MeanAndMethodWhenUnshadowed ==
    pc = "canonicalized" =>
        /\ \A i \in 1..Len(table.headers) :
              /\ contains(<<"m", "e", "t", "h", "o", "d">>, header_lc(i)) => df.cols[i] = Method
              /\ (contains(<<"m", "e", "a", "n">>, header_lc(i))
                    /\ ~contains(<<"c", "i">>, header_lc(i))
                    /\ ~contains(<<"m", "e", "t", "h", "o", "d">>, header_lc(i))) => df.cols[i] = Mean_ms
        /\ ((\E i \in 1..Len(table.headers) : contains(<<"m", "e", "t", "h", "o", "d">>, header_lc(i)))
              /\ (\E i \in 1..Len(table.headers) :
                     contains(<<"m", "e", "a", "n">>, header_lc(i))
                       /\ ~contains(<<"c", "i">>, header_lc(i))
                       /\ ~contains(<<"m", "e", "t", "h", "o", "d">>, header_lc(i))))
           => (has_column(df.cols, Mean_ms) /\ has_column(df.cols, Method))

\* C2 witness: a table with a plain mean header and a method header, renamed.
C2_Witness ==
    /\ pc = "canonicalized"
    /\ Len(table.headers) = 2
    /\ table.headers[1] = <<" ", "M", "E", "A", "N", " ">>
    /\ table.headers[2] = <<"m", "e", "t", "h", "o", "d", " ", "n", "a", "m", "e">>
    /\ df.cols = <<Mean_ms, Method>>

\* ---- C3 ----------------------------------------------------------------
\* one alternative of a rule: substrings the header must hold, substrings it
\* must not hold, and (when not empty) the texts it must be equal to
Alt(has, lacks, is) == [has |-> has, lacks |-> lacks, is |-> is]

\* the rule list in the order the claim gives
ClaimRules ==
    << [name |-> Mean_ms,      any |-> {Alt({<<"m", "e", "a", "n">>}, {}, {}), Alt({<<"a", "v", "g">>}, {}, {})}],
       [name |-> StdDev_ms,    any |-> {Alt({<<"s", "t", "d">>}, {}, {})}],
       [name |-> CI95_ms,      any |-> {Alt({<<"c", "i">>, <<"9", "5">>}, {}, {})}],
       [name |-> Fallback_pct, any |-> {Alt({<<"f", "a", "l", "l", "b", "a", "c", "k">>}, {}, {})}],
       [name |-> Accuracy_pct, any |-> {Alt({<<"a", "c", "c", "u", "r", "a", "c", "y">>}, {}, {})}],
       [name |-> Samples,      any |-> {Alt({<<"s", "a", "m", "p", "l", "e">>}, {}, {}), Alt({}, {}, {<<"n">>})}],
       [name |-> InputLength,  any |-> {Alt({<<"i", "n", "p", "u", "t">>, <<"l", "e", "n">>}, {}, {})}],
       [name |-> Min_ms,       any |-> {Alt({<<"m", "i", "n">>}, {}, {})}],
       [name |-> Max_ms,       any |-> {Alt({<<"m", "a", "x">>}, {}, {})}],
       [name |-> Method,       any |-> {Alt({<<"m", "e", "t", "h", "o", "d">>}, {}, {})}] >>

\* the rule list in the order of the if/elif chain: Method first, and the
\* mean rule not for a header that holds "ci"
ChainRules ==
    << [name |-> Method,       any |-> {Alt({<<"m", "e", "t", "h", "o", "d">>}, {}, {})}],
       [name |-> Mean_ms,      any |-> {Alt({<<"m", "e", "a", "n">>}, {<<"c", "i">>}, {}), Alt({<<"a", "v", "g">>}, {}, {})}],
       [name |-> StdDev_ms,    any |-> {Alt({<<"s", "t", "d">>}, {}, {})}],
       [name |-> CI95_ms,      any |-> {Alt({<<"c", "i">>, <<"9", "5">>}, {}, {})}],
       [name |-> Fallback_pct, any |-> {Alt({<<"f", "a", "l", "l", "b", "a", "c", "k">>}, {}, {})}],
       [name |-> Accuracy_pct, any |-> {Alt({<<"a", "c", "c", "u", "r", "a", "c", "y">>}, {}, {})}],
       [name |-> Samples,      any |-> {Alt({<<"s", "a", "m", "p", "l", "e">>}, {}, {}), Alt({}, {}, {<<"n">>})}],
       [name |-> InputLength,  any |-> {Alt({<<"i", "n", "p", "u", "t">>, <<"l", "e", "n">>}, {}, {})}],
       [name |-> Min_ms,       any |-> {Alt({<<"m", "i", "n">>}, {}, {})}],
       [name |-> Max_ms,       any |-> {Alt({<<"m", "a", "x">>}, {}, {})}] >>

RuleMatches(rule, lc) ==
    \E a \in rule.any :
        /\ \A k \in a.has : contains(k, lc)
        /\ \A k \in a.lacks : ~contains(k, lc)
        /\ a.is = {} \/ lc \in a.is

\* the name of the earliest rule of the list that the header satisfies, the
\* header's own (stripped) name when it satisfies none
FirstMatch(rules, header) ==
    LET lc   == lower(strip(header))
        hits == {k \in 1..Len(rules) : RuleMatches(rules[k], lc)}
    IN  IF hits = {} THEN strip(header)
        ELSE rules[CHOOSE k \in hits : \A o \in hits : k <= o].name

EarlyExit ==
    pc = "done" /\ (csv_path = None \/ ~has_column(df.cols, Method))

\* C4: a run that ends by an early exit has printed its diagnostic last, has
\* raised nothing and has created no output folder and no output file
\* (folders and files are only ever added, so none existed earlier either).
C4_EarlyExitWritesNothing ==
    EarlyExit =>
        /\ raised = "no"
        /\ dirs = {}
        /\ files = {}
        /\ csv_out = None /\ bar_out = None /\ md_out = None /\ tex_out = None
        /\ printed # <<>>
        /\ printed[Len(printed)] =
              (IF csv_path = None THEN "No CSV found"
               ELSE "CSV missing Method column; aborting")

\* C4 witness: a CSV with data rows but no Method column was read and main()
\* has returned.
C4_Witness ==
    /\ EarlyExit
    /\ csv_path # None
    /\ table.rows # <<>>
    /\ has_column(df.cols, Mean_ms)

\* ---- C5 ----------------------------------------------------------------
\* the run is over and no write failed on the way
EndedWithoutWriteFailure == pc \in {"done", "raised"} /\ raised # "OSError"

\* C5 (as claimed): a run on a table with rows, Method and InputLength but no
\* Runtime_ms ends with the bar chart, the markdown report and the LaTeX
\* table written and no scaling plot; and on any table with Method the
\* scaling plot is written exactly when InputLength and Runtime_ms are both
\* columns.
C5_DetailedWithoutRuntime ==
    (EndedWithoutWriteFailure /\ table.rows # <<>> /\ has_column(df.cols, Method))
    => /\ (has_column(df.cols, InputLength) /\ ~has_column(df.cols, Runtime_ms))
             => /\ runtime_plot(csv_path) \in files
                /\ md_out_path(csv_path) \in files
                /\ tex_out_path(csv_path) \in files
                /\ scaling_plot(csv_path) \notin files
       /\ (scaling_plot(csv_path) \in files)
             <=> (has_column(df.cols, InputLength) /\ has_column(df.cols, Runtime_ms))

\* ---- C6 ----------------------------------------------------------------
\* the Mean_ms of the rows written to summary_<stem>.csv, when present
CsvMeanNonDecreasing(rows) ==
    \A i \in 1..(Len(rows) - 1) :
        (~IsNaN(rows[i].Mean_ms) /\ ~IsNaN(rows[i + 1].Mean_ms))
            => rows[i].Mean_ms[1] <= rows[i + 1].Mean_ms[1]

\* C6 (as claimed): on a completed run the rows of the summary CSV, the bar
\* chart, the markdown table and the LaTeX table are all in non-decreasing
\* Mean_ms order.
C6_AllArtefactsSorted ==
    (pc = "done" /\ tex_out # None) =>
        /\ CsvMeanNonDecreasing(csv_out[1])
        /\ NonDecreasingMean(bar_out[1])
        /\ NonDecreasingMean(md_out[1].rows)
        /\ NonDecreasingMean(tex_out[1])

\* C6 (amended): the rows of the bar chart, the markdown table and the LaTeX
\* table are in non-decreasing Mean_ms order; the summary CSV holds the
\* aggregated frame as it is, in ascending order of Method.
C6_RenderedRowsSorted ==
    /\ bar_out # None => NonDecreasingMean(bar_out[1])
    /\ md_out # None => NonDecreasingMean(md_out[1].rows)
    /\ tex_out # None => NonDecreasingMean(tex_out[1])
    /\ csv_out # None =>
          /\ csv_out[1] = summary
          /\ \A i \in 1..(Len(csv_out[1]) - 1) :
                str_lt(csv_out[1][i].Method, csv_out[1][i + 1].Method)

\* C6 witness: a completed run whose two methods the sort put in the other
\* order than the summary CSV has them.
C6_Witness ==
    /\ pc = "done"
    /\ tex_out # None
    /\ Len(tex_out[1]) = 2
    /\ tex_out[1][1].Mean_ms < tex_out[1][2].Mean_ms
    /\ tex_out[1][1].Method = csv_out[1][2].Method
    /\ bar_out[1] = tex_out[1]
    /\ md_out[1].rows = tex_out[1]

\* ---- C7 ----------------------------------------------------------------
\* C7 (as claimed): on a table with rows and a Method column the aggregation
\* raises nothing, whichever of the optional columns are there, and once it
\* is done the summary has exactly one row per distinct Method.
C7_AggregationCompletes ==
    (table.rows # <<>> /\ has_column(df.cols, Method)
        /\ pc \notin {"start", "read_csv", "aggregate"})
    => /\ raised \notin {"KeyError: Column(s) do not exist", "ValueError"}
       /\ \A r \in 1..Len(df.rows) :
             Cardinality({i \in 1..Len(summary) :
                             summary[i].Method = cell(df, r, Method)}) = 1

\* ---- C8 ----------------------------------------------------------------
\* the source has no CI95 value for method m
NoSourceCI95(m) ==
    has_column(df.cols, CI95_ms) => \A r \in RowsOf(m) : IsNaN(cell(df, r, CI95_ms))

\* the per-method mean of the source StdDev_ms
SourceStd(m) == agg_mean(group_values(df, m, StdDev_ms))

\* the per-method maximum of the source Samples, assume-n when missing
SourceSamples(m) ==
    fillna(agg_max(group_values(df, m, Samples)), assume_n * Scale)

\* ci is 1.96 * std / sqrt(s / Scale) to within one unit of 1/Scale:
\* ci^2 * s / Scale brackets (1.96 * std)^2
IsCI95(ci, std, s) ==
    LET a  == (196 * std) \div 100
        lo == IF ci > 0 THEN ci - 1 ELSE 0
        hi == ci + 1
    IN  lo * lo * s <= a * a * Scale /\ a * a * Scale <= hi * hi * s

\* C8 (as claimed): with no source CI95, CI95_ms is 1.96 * StdDev_ms /
\* sqrt(Samples) when Samples > 0 and StdDev_ms is present, and missing when
\* Samples <= 0 or StdDev_ms is missing.
C8_CI95FromSamples ==
    Aggregated =>
        \A i \in 1..Len(summary) :
            LET m == summary[i].Method
                s == SourceSamples(m)[1]
            IN  NoSourceCI95(m) =>
                    IF IsNaN(SourceStd(m)) \/ s <= 0
                    THEN IsNaN(summary[i].CI95_ms)
                    ELSE /\ ~IsNaN(summary[i].CI95_ms)
                         /\ IsCI95(summary[i].CI95_ms[1], SourceStd(m)[1], s)

\* C8 (amended): the same with Samples truncated toward zero to an integer
\* before the computation: CI95_ms is 1.96 * StdDev_ms / sqrt(int(Samples))
\* when int(Samples) > 0 and StdDev_ms is present, and missing otherwise.
C8_CI95FromTruncatedSamples ==
    Aggregated =>
        \A i \in 1..Len(summary) :
            LET m == summary[i].Method
                n == int(SourceSamples(m)[1])
            IN  /\ summary[i].StdDev_ms = SourceStd(m)
                /\ summary[i].Samples = SourceSamples(m)
                /\ NoSourceCI95(m) =>
                      IF IsNaN(SourceStd(m)) \/ n <= 0
                      THEN IsNaN(summary[i].CI95_ms)
                      ELSE /\ ~IsNaN(summary[i].CI95_ms)
                           /\ IsCI95(summary[i].CI95_ms[1], SourceStd(m)[1], n * Scale)

\* C8 witness: a method of two rows, one without Samples and one with a
\* fractional count, no source CI95, and a computed CI95_ms.
C8_Witness ==
    /\ Aggregated
    /\ \E i \in 1..Len(summary) :
          LET m == summary[i].Method
          IN  /\ NoSourceCI95(m)
              /\ Cardinality(RowsOf(m)) = 2
              /\ \E r \in RowsOf(m) : IsNaN(cell(df, r, Samples))
              /\ summary[i].Samples[1] % Scale # 0
              /\ ~IsNaN(summary[i].CI95_ms)
              /\ summary[i].CI95_ms[1] > 0

\* ---- C9 ----------------------------------------------------------------
\* the row lists handed to the three renderers
RenderedRowLists ==
    (IF bar_out # None THEN {bar_out[1]} ELSE {})
      \cup (IF md_out # None THEN {md_out[1].rows} ELSE {})
      \cup (IF tex_out # None THEN {tex_out[1]} ELSE {})

\* row x shows the aggregated row a with missing values replaced by the
\* defaults; samples is what x.Samples has to be
ShowsWithDefaults(x, a, samples) ==
    /\ x.Mean_ms      = (IF IsNaN(a.Mean_ms) THEN 0 ELSE a.Mean_ms[1])
    /\ x.StdDev_ms    = (IF IsNaN(a.StdDev_ms) THEN 0 ELSE a.StdDev_ms[1])
    /\ x.CI95_ms      = (IF IsNaN(a.CI95_ms) THEN 0 ELSE a.CI95_ms[1])
    /\ x.Fallback_pct = (IF IsNaN(a.Fallback_pct) THEN 0 ELSE a.Fallback_pct[1])
    /\ x.Accuracy_pct = (IF IsNaN(a.Accuracy_pct) THEN 100 * Scale ELSE a.Accuracy_pct[1])
    /\ samples

\* a method all of whose cells under a column hold no number is shown with
\* the default of that column
UnparseableShownAsDefault(x) ==
    LET rs == RowsOf(x.Method)
    IN  /\ (\A r \in rs : NoDigit(raw_cell(r, Mean_ms))) => x.Mean_ms = 0
        /\ (\A r \in rs : NoDigit(raw_cell(r, StdDev_ms))) => x.StdDev_ms = 0
        /\ (\A r \in rs : NoDigit(raw_cell(r, Fallback_pct))) => x.Fallback_pct = 0
        /\ (\A r \in rs : NoDigit(raw_cell(r, Accuracy_pct)))
              => x.Accuracy_pct = 100 * Scale

\* C9 (as claimed): every row handed to a renderer shows its method's
\* aggregated row with the defaults for missing values and every present
\* value, Samples included, unchanged.
C9_DefaultsAndUnchanged ==
    \A rows \in RenderedRowLists :
        /\ Len(rows) = Len(summary)
        /\ \A k \in 1..Len(rows) :
              \E i \in 1..Len(summary) :
                  /\ summary[i].Method = rows[k].Method
                  /\ ShowsWithDefaults(rows[k], summary[i],
                        IF IsNaN(summary[i].Samples)
                        THEN rows[k].Samples = assume_n
                        ELSE rows[k].Samples * Scale = summary[i].Samples[1])
              /\ UnparseableShownAsDefault(rows[k])

\* C9 (amended): the same, except that a present Samples is emitted
\* truncated toward zero to an integer.
C9_DefaultsAndSamplesTruncated ==
    \A rows \in RenderedRowLists :
        /\ Len(rows) = Len(summary)
        /\ \A k \in 1..Len(rows) :
              /\ \E i \in 1..Len(summary) :
                    /\ summary[i].Method = rows[k].Method
                    /\ ShowsWithDefaults(rows[k], summary[i],
                          IF IsNaN(summary[i].Samples)
                          THEN rows[k].Samples = assume_n
                          ELSE rows[k].Samples = int(summary[i].Samples[1]))
              /\ UnparseableShownAsDefault(rows[k])

\* C9 witness: a completed run with a method whose only Mean_ms cell is
\* "fast" and whose Accuracy_pct cell is empty, shown as 0.0 and 100.0.
C9_Witness ==
    /\ pc = "done"
    /\ tex_out # None
    /\ \E k \in 1..Len(tex_out[1]) :
          LET x == tex_out[1][k]
          IN  /\ Cardinality(RowsOf(x.Method)) = 1
              /\ \A r \in RowsOf(x.Method) :
                    /\ raw_cell(r, Mean_ms) = <<"f", "a", "s", "t">>
                    /\ raw_cell(r, Accuracy_pct) = <<>>
              /\ x.Mean_ms = 0
              /\ x.Accuracy_pct = 100 * Scale
              /\ x.StdDev_ms > 0

====
